---- MODULE Spec2Model ----
(***************************************************************************)
(* Model of scrapy/analyze_pylint.py: parse_pylint_output,                 *)
(* generate_statistics and write_to_file, run in that order by the main    *)
(* block.                                                                  *)
(*                                                                         *)
(* A string is a sequence of characters.  The 20 characters                *)
(* "************* Module" of the section marker are carried as one         *)
(* character of the alphabet; every other character is itself.             *)
(* The file is consumed one line per step: `lines` is the part of          *)
(* file.readlines() the loop has gone through.                             *)
(***************************************************************************)
EXTENDS Integers, Sequences, FiniteSets, TLC

\* Longest input file, in lines.
MaxLines == 4

\* Longest input file made of header lines and Error and Fatal lines only.
MaxUnitLines == 6

----------------------------------------------------------------------------
(* Strings *)

StarsModule == "************* Module"

\* The literal of line 38.
MARKER == <<StarsModule, " ">>

IsSpace(c) == c \in {" ", "\t", "\n"}

RECURSIVE LStrip(_)
LStrip(s) ==
  IF s /= <<>> /\ IsSpace(Head(s)) THEN LStrip(Tail(s)) ELSE s

RECURSIVE RStrip(_)
RStrip(s) ==
  IF s /= <<>> /\ IsSpace(s[Len(s)]) THEN RStrip(SubSeq(s, 1, Len(s) - 1)) ELSE s

\* str.strip()
Strip(s) == RStrip(LStrip(s))

\* str.startswith(p)
StartsWith(s, p) == Len(s) >= Len(p) /\ SubSeq(s, 1, Len(p)) = p

\* s[n:]
SliceFrom(s, n) == SubSeq(s, n + 1, Len(s))

\* str.split(sep): the segments between the occurrences of sep; always at
\* least one segment.
RECURSIVE SplitAcc(_, _, _)
SplitAcc(s, sep, cur) ==
  IF s = <<>> THEN <<cur>>
  ELSE IF Head(s) = sep THEN <<cur>> \o SplitAcc(Tail(s), sep, <<>>)
  ELSE SplitAcc(Tail(s), sep, Append(cur, Head(s)))

Split(s, sep) == SplitAcc(s, sep, <<>>)

----------------------------------------------------------------------------
(* dict, in insertion order: a sequence of <<key, value>> pairs with       *)
(* pairwise different keys.                                                *)

DictHas(d, k) == \E i \in 1..Len(d) : d[i][1] = k

DictIndex(d, k) == CHOOSE i \in 1..Len(d) : d[i][1] = k

DictGet(d, k) == d[DictIndex(d, k)][2]

RECURSIVE DictRemove(_, _)
DictRemove(d, k) ==
  IF d = <<>> THEN <<>>
  ELSE IF Head(d)[1] = k THEN DictRemove(Tail(d), k)
  ELSE <<Head(d)>> \o DictRemove(Tail(d), k)

\* A faulty d[k] = v: an existing key moves to the end of the order.
DictSetMoveToEnd(d, k, v) == Append(DictRemove(d, k), <<k, v>>)

\* d[k] = v: an existing key keeps its place, a new key goes to the end.
DictSet(d, k, v) ==
  IF DictHas(d, k) THEN [d EXCEPT ![DictIndex(d, k)] = <<k, v>>]
  ELSE Append(d, <<k, v>>)

\* d.values()
DictValues(d) == [i \in 1..Len(d) |-> d[i][2]]

DictKeys(d) == [i \in 1..Len(d) |-> d[i][1]]

----------------------------------------------------------------------------
(* parse_pylint_output *)

\* current_module is <<>> for None and <<label>> for a label.
None == <<>>

\* `current_module` as a condition: not None and not the empty string.
Truthy(cur) == cur /= None /\ cur[1] /= <<>>

\* A faulty header branch: the label is trimmed once more.
HeaderLabelTrimmed(line) == Strip(SliceFrom(line, Len(MARKER)))

\* line[len("************* Module "):] of the stripped line.
HeaderLabel(line) == SliceFrom(line, Len(MARKER))

\* The index of the severity segment parts[3], counted from 1.
SeverityIndex == 4

\* A faulty header branch: a repeated header keeps the sequence it finds.
HeaderStepMerge(an, label) ==
  [analysis |-> IF DictHas(an, label) THEN an ELSE DictSet(an, label, <<>>),
   current_module |-> <<label>>]

\* Lines 39-40: the label becomes the current module and maps to [].
HeaderStep(an, label) ==
  [analysis |-> DictSet(an, label, <<>>), current_module |-> <<label>>]

\* A faulty append: the new element goes to the front.
ListPrepend(seq, d) == <<d>> \o seq

\* list.append
ListAppend(seq, d) == Append(seq, d)

\* A faulty except clause: the current module is forgotten.
OnExceptionReset(an, cur) == [analysis |-> an, current_module |-> None]

\* Lines 48-49: `except Exception: continue` leaves everything as it was.
OnException(an, cur) == [analysis |-> an, current_module |-> cur]

\* A faulty loop body: a line met before any header is recorded under the
\* empty label.
ParseLineNoGuard(an, cur, raw) ==
  LET line == Strip(raw) IN
  IF StartsWith(line, MARKER)
  THEN HeaderStep(an, HeaderLabel(line))
  ELSE IF line /= <<>>
  THEN LET parts == Split(line, ":")
           key == IF cur = None THEN <<>> ELSE cur[1]
           old == IF DictHas(an, key) THEN DictGet(an, key) ELSE <<>>
       IN IF Len(parts) < SeverityIndex
          THEN OnException(an, cur)
          ELSE IF Strip(parts[SeverityIndex]) = <<>>
          THEN OnException(an, cur)
          ELSE [analysis |-> DictSet(an, key,
                   ListAppend(old, <<Strip(parts[1]),
                                     Strip(parts[SeverityIndex])[1], line>>)),
                current_module |-> cur]
  ELSE [analysis |-> an, current_module |-> cur]

\* One iteration of the loop of lines 36-49 on the raw line `raw`.
\* The try block raises IndexError on parts[3] when there are fewer than
\* four segments, IndexError on ...strip()[0] when the segment is empty and
\* KeyError on analysis[current_module] when the key is missing.
ParseLine(an, cur, raw) ==
  LET line == Strip(raw) IN
  IF StartsWith(line, MARKER)
  THEN HeaderStep(an, HeaderLabel(line))
  ELSE IF Truthy(cur) /\ line /= <<>>
  THEN LET parts == Split(line, ":") IN
       IF Len(parts) < SeverityIndex
       THEN OnException(an, cur)
       ELSE IF Strip(parts[SeverityIndex]) = <<>>
       THEN OnException(an, cur)
       ELSE IF ~DictHas(an, cur[1])
       THEN OnException(an, cur)
       ELSE LET file_info == Strip(parts[1])
                error_type == Strip(parts[SeverityIndex])[1]
                full_error == line
            IN [analysis |-> DictSet(an, cur[1],
                     ListAppend(DictGet(an, cur[1]),
                                <<file_info, error_type, full_error>>)),
                current_module |-> cur]
  ELSE [analysis |-> an, current_module |-> cur]

----------------------------------------------------------------------------
(* Python's float is the IEEE 754 binary64 format.  A natural number of    *)
(* any size is a sequence of limbs in base 2^15, lowest first, without     *)
(* leading zero limbs (<<>> is 0); a float is [neg, m, e] with value       *)
(* (-1)^neg * m * 2^e and m at most 2^53.  The counts are far from the     *)
(* exponent range, so neither overflow nor subnormal numbers occur.        *)

\* Bits of the binary64 significand.
Precision == 53

\* Fraction bits of the quotient computed before it is rounded; the
\* quotient of two counts then has more than Precision + 2 bits.
GuardBits == 75

LimbBits == 15

Base == 32768

RECURSIVE Pow2(_)
Pow2(k) == IF k = 0 THEN 1 ELSE 2 * Pow2(k - 1)

\* Number of bits of a limb
RECURSIVE IntBitLen(_)
IntBitLen(n) == IF n = 0 THEN 0 ELSE 1 + IntBitLen(n \div 2)

RECURSIVE NatOf(_)
NatOf(n) == IF n = 0 THEN <<>> ELSE <<n % Base>> \o NatOf(n \div Base)

RECURSIVE NatToInt(_)
NatToInt(a) == IF a = <<>> THEN 0 ELSE Head(a) + Base * NatToInt(Tail(a))

\* a without its leading zero limbs
NatTrim(a) ==
  LET nz == {i \in 1..Len(a) : a[i] /= 0} IN
  IF nz = {} THEN <<>>
  ELSE SubSeq(a, 1, CHOOSE i \in nz : \A j \in nz : j <= i)

NatBitLen(a) ==
  IF a = <<>> THEN 0 ELSE LimbBits * (Len(a) - 1) + IntBitLen(a[Len(a)])

RECURSIVE NatMulCarry(_, _, _)
NatMulCarry(a, k, carry) ==
  IF a = <<>> THEN NatOf(carry)
  ELSE <<(Head(a) * k + carry) % Base>>
       \o NatMulCarry(Tail(a), k, (Head(a) * k + carry) \div Base)

\* a * k for 0 <= k < Base
NatMulSmall(a, k) == NatTrim(NatMulCarry(a, k, 0))

\* a * 2^n
NatShl(a, n) ==
  IF a = <<>> THEN <<>>
  ELSE [i \in 1..(n \div LimbBits) |-> 0] \o NatMulSmall(a, Pow2(n % LimbBits))

RECURSIVE NatSubBorrow(_, _, _)
NatSubBorrow(a, b, borrow) ==
  IF a = <<>> THEN <<>>
  ELSE LET d == Head(a) - (IF b = <<>> THEN 0 ELSE Head(b)) - borrow IN
       <<d % Base>> \o NatSubBorrow(Tail(a), IF b = <<>> THEN <<>> ELSE Tail(b),
                                    IF d < 0 THEN 1 ELSE 0)

\* a - b for a >= b
NatSub(a, b) == NatTrim(NatSubBorrow(a, b, 0))

RECURSIVE NatInc(_)
NatInc(a) ==
  IF a = <<>> THEN <<1>>
  ELSE IF Head(a) < Base - 1 THEN <<Head(a) + 1>> \o Tail(a)
  ELSE <<0>> \o NatInc(Tail(a))

\* a < b
NatLess(a, b) ==
  \/ Len(a) < Len(b)
  \/ /\ Len(a) = Len(b)
     /\ \E i \in 1..Len(a) :
          /\ a[i] < b[i]
          /\ \A j \in (i + 1)..Len(a) : a[j] = b[j]

\* Quotient and remainder of a by t, 0 < t < Base, by long division from
\* the highest limb.
RECURSIVE NatDivSmall(_, _)
NatDivSmall(a, t) ==
  IF a = <<>> THEN [q |-> <<>>, r |-> 0]
  ELSE LET hi == NatDivSmall(Tail(a), t)
           cur == Base * hi.r + Head(a)
       IN [q |-> <<cur \div t>> \o hi.q, r |-> cur % t]

\* a mod 2^n /= 0
NatLowBitsSet(a, n) ==
  \/ \E i \in 1..(n \div LimbBits) : i <= Len(a) /\ a[i] /= 0
  \/ /\ (n \div LimbBits) + 1 <= Len(a)
     /\ a[(n \div LimbBits) + 1] % Pow2(n % LimbBits) /= 0

\* floor(a / 2^n)
NatShr(a, n) ==
  IF n \div LimbBits >= Len(a) THEN <<>>
  ELSE NatTrim(NatDivSmall(SubSeq(a, (n \div LimbBits) + 1, Len(a)),
                           Pow2(n % LimbBits)).q)

\* a / 2^d rounded to the nearest integer, ties to even.
NatShrRound(a, d) ==
  IF d = 0 THEN a
  ELSE LET kept == NatShr(a, d)
           guard == NatLowBitsSet(NatShr(a, d - 1), 1)
           sticky == NatLowBitsSet(a, d - 1)
           odd == NatLowBitsSet(kept, 1)
       IN IF guard /\ (sticky \/ odd) THEN NatInc(kept) ELSE kept

\* The binary64 value nearest to m * 2^e, ties to even.
FRound(neg, m, e) ==
  IF m = <<>> THEN [neg |-> FALSE, m |-> <<>>, e |-> 0]
  ELSE IF NatBitLen(m) <= Precision THEN [neg |-> neg, m |-> m, e |-> e]
  ELSE [neg |-> neg, m |-> NatShrRound(m, NatBitLen(m) - Precision),
        e |-> e + NatBitLen(m) - Precision]

\* The literal 0.0
FZero == [neg |-> FALSE, m |-> <<>>, e |-> 0]

\* c / t for ints c >= 0 and 0 < t < Base: the quotient correctly rounded.
\* A remainder is folded into the lowest bit before rounding.
FDivInt(c, t) ==
  LET dv == NatDivSmall(NatShl(NatOf(c), GuardBits), t)
      q == NatTrim(dv.q)
      qs == IF dv.r /= 0 /\ ~NatLowBitsSet(q, 1) THEN NatInc(q) ELSE q
  IN FRound(FALSE, qs, 0 - GuardBits)

\* x * k for a float x and an int 0 <= k < Base
FMulInt(x, k) == FRound(x.neg, NatMulSmall(x.m, k), x.e)

\* k - x for an int k >= 0 and a float x >= 0
FIntSub(k, x) ==
  LET e == IF x.e < 0 THEN x.e ELSE 0
      a == NatShl(NatOf(k), 0 - e)
      b == NatShl(x.m, x.e - e)
  IN IF NatLess(a, b) THEN FRound(TRUE, NatSub(b, a), e)
     ELSE FRound(FALSE, NatSub(a, b), e)

\* x = 0.0
FIsZero(x) == x.m = <<>>

\* x * d = n exactly, for ints n >= 0 and 0 < d < Base
FTimesEquals(x, d, n) ==
  /\ ~x.neg
  /\ IF x.e < 0 THEN NatMulSmall(x.m, d) = NatShl(NatOf(n), 0 - x.e)
     ELSE NatShl(NatMulSmall(x.m, d), x.e) = NatOf(n)

\* x < k for an int k >= 0
FLessInt(x, k) ==
  \/ x.neg
  \/ IF x.e < 0 THEN NatLess(x.m, NatShl(NatOf(k), 0 - x.e))
     ELSE NatLess(NatShl(x.m, x.e), NatOf(k))

\* f"{x:.2f}": the decimal with two fraction digits nearest to x, ties to
\* even, as characters.
Format2f(x) ==
  LET p == NatMulSmall(x.m, 100)
      h == NatToInt(IF x.e < 0 THEN NatShrRound(p, 0 - x.e) ELSE NatShl(p, x.e))
  IN (IF x.neg THEN <<"-">> ELSE <<>>)
     \o <<ToString(h \div 100), ".", ToString((h \div 10) % 10), ToString(h % 10)>>

----------------------------------------------------------------------------
(* generate_statistics *)

\* The keys of pylint_counts.
Codes == {"E", "W", "C", "R", "F", "I"}

\* Line 54.
ZeroCounts == [c \in Codes |-> 0]

\* A faulty count: a category that is no key is counted as Information.
CountOneUnknownAsInfo(counts, error_type) ==
  IF error_type \in DOMAIN counts
  THEN [counts EXCEPT ![error_type] = @ + 1]
  ELSE [counts EXCEPT !["I"] = @ + 1]

\* Lines 58-59.
CountOne(counts, error_type) ==
  IF error_type \in DOMAIN counts
  THEN [counts EXCEPT ![error_type] = @ + 1]
  ELSE counts

\* Line 57: the inner loop over one module's errors.
RECURSIVE CountModule(_, _)
CountModule(counts, module_errors) ==
  IF module_errors = <<>> THEN counts
  ELSE CountModule(CountOne(counts, Head(module_errors)[2]), Tail(module_errors))

\* Line 56: the outer loop over analysis.values().
RECURSIVE CountAll(_, _)
CountAll(counts, values) ==
  IF values = <<>> THEN counts
  ELSE CountAll(CountModule(counts, Head(values)), Tail(values))

\* A faulty total: only the categories that are no potential bug are summed.
SumValuesNonCritical(counts) ==
  counts["W"] + counts["C"] + counts["R"] + counts["I"]

\* sum(pylint_counts.values())
SumValues(counts) ==
  counts["E"] + counts["W"] + counts["C"] + counts["R"] + counts["F"] + counts["I"]

\* A faulty rate: the general formula also when left_sum is 0.
RateNoSpecialCase(left, total) ==
  IF total = 0 THEN FZero
  ELSE FIntSub(100, FMulInt(FDivInt(left, total), 100))

\* Lines 64-67, for total > 0 or left = 0.
Rate(left, total) ==
  IF left = 0 THEN FZero
  ELSE FIntSub(100, FMulInt(FDivInt(left, total), 100))

\* Lines 69-76: the statistics text, one sequence of characters per line.
StatisticsText(counts, total, rate) ==
  << <<"Total Issues: ", ToString(total)>>,
     <<"Errors: ", ToString(counts["E"])>>,
     <<"Warnings: ", ToString(counts["W"])>>,
     <<"Conventions: ", ToString(counts["C"])>>,
     <<"Refactors: ", ToString(counts["R"])>>,
     <<"Fatals: ", ToString(counts["F"])>>,
     <<"Informations: ", ToString(counts["I"])>>,
     <<"Estimated False Positive Rate: ">> \o Format2f(rate) \o <<"%">> >>

----------------------------------------------------------------------------
(* write_to_file *)

\* A faulty listing: Fatal diagnostics are left out.
BugLinesOfErrorOnly(error) ==
  IF error[2] = "E" THEN << <<"Error: ">> \o error[3] >> ELSE <<>>

\* Lines 85-88: the lines written for one error.
BugLinesOf(error) ==
  (IF error[2] = "E" THEN << <<"Error: ">> \o error[3] >> ELSE <<>>)
  \o (IF error[2] = "F" THEN << <<"Fatal: ">> \o error[3] >> ELSE <<>>)

\* Line 84: the inner loop over one module's errors.
RECURSIVE BugLinesOfModule(_)
BugLinesOfModule(errors) ==
  IF errors = <<>> THEN <<>>
  ELSE BugLinesOf(Head(errors)) \o BugLinesOfModule(Tail(errors))

\* Line 83: the outer loop over analysis.values().
RECURSIVE BugLines(_)
BugLines(values) ==
  IF values = <<>> THEN <<>>
  ELSE BugLinesOfModule(Head(values)) \o BugLines(Tail(values))

\* Lines 82-91: the lines of the output file.
FileText(an, stats) ==
  << <<"Potential Bugs:">> >> \o BugLines(DictValues(an))
  \o << <<>>, <<"Statistics:">> >> \o stats

----------------------------------------------------------------------------
(* The lines an input file is made of, as file.readlines() returns them. *)

HdrA == <<StarsModule, " ", "a", "\n">>

HdrAOuter == <<" ", StarsModule, " ", "a", " ", "\n">>

HdrAInner == <<StarsModule, " ", " ", "a", "\n">>

DiagE == <<"f", ":", "1", ":", "0", ":", " ", "E", "1", ":", " ", "m", "\n">>

DiagF == <<"g", " ", ":", "2", ":", "0", ":", " ", "F", "2", " ", ":", "m", "\n">>

DiagW == <<"f", ":", "3", ":", "0", ":", "W", "\n">>

DiagZ == <<"f", ":", "4", ":", "0", ":", " ", "Z", "9", "\n">>

TwoSegments == <<"f", ":", "o", "\n">>

EmptyFourth == <<"f", ":", "5", ":", "0", ":", " ", ":", "m", "\n">>

Blank == <<" ", "\n">>

RawLines ==
  {HdrA, HdrAOuter, HdrAInner, DiagE, DiagF, DiagW, DiagZ,
   TwoSegments, EmptyFourth, Blank}

UnitLines == {HdrA, HdrAInner, DiagE, DiagF}

----------------------------------------------------------------------------
(* The program *)

VARIABLES
  lines,                \* the lines of the input file gone through so far
  analysis,             \* the dict built by parse_pylint_output
  current_module,
  pc,                   \* "parse", "parsed", "stats", "done" or "ZeroDivisionError"
  pylint_counts,
  total_issues,
  left_sum,
  false_positive_rate,
  statistics,           \* the text generate_statistics returns
  out                   \* the lines written to the output file

vars == <<lines, analysis, current_module, pc, pylint_counts, total_issues,
          left_sum, false_positive_rate, statistics, out>>

Init ==
  /\ lines = <<>>
  /\ analysis = <<>>
  /\ current_module = None
  /\ pc = "parse"
  /\ pylint_counts = ZeroCounts
  /\ total_issues = 0
  /\ left_sum = 0
  /\ false_positive_rate = FZero
  /\ statistics = <<>>
  /\ out = <<>>

\* One iteration of the loop of parse_pylint_output, on the next line of
\* a file of at most `max` lines taken from `from`.
ParseStepOf(from, max) ==
  /\ pc = "parse"
  /\ Len(lines) < max
  /\ \E raw \in from :
       LET r == ParseLine(analysis, current_module, raw) IN
       /\ lines' = Append(lines, raw)
       /\ analysis' = r.analysis
       /\ current_module' = r.current_module
  /\ UNCHANGED <<pc, pylint_counts, total_issues, left_sum,
                 false_positive_rate, statistics, out>>

ParseStep == ParseStepOf(RawLines, MaxLines)

ParseStepUnits == ParseStepOf(UnitLines, MaxUnitLines)

\* The file has no further line: parse_pylint_output returns analysis.
ParseReturn ==
  /\ pc = "parse"
  /\ pc' = "parsed"
  /\ UNCHANGED <<lines, analysis, current_module, pylint_counts, total_issues,
                 left_sum, false_positive_rate, statistics, out>>

\* generate_statistics(analysis).  The division of line 67 raises
\* ZeroDivisionError when total_issues is 0.
GenerateStatistics ==
  /\ pc = "parsed"
  /\ LET counts == CountAll(ZeroCounts, DictValues(analysis))
         total == SumValues(counts)
         left == counts["F"] + counts["E"]
     IN /\ pylint_counts' = counts
        /\ total_issues' = total
        /\ left_sum' = left
        /\ IF left /= 0 /\ total = 0
           THEN /\ pc' = "ZeroDivisionError"
                /\ UNCHANGED <<false_positive_rate, statistics>>
           ELSE /\ pc' = "stats"
                /\ false_positive_rate' = Rate(left, total)
                /\ statistics' = StatisticsText(counts, total, Rate(left, total))
  /\ UNCHANGED <<lines, analysis, current_module, out>>

\* write_to_file(output_file, analysis, statistics)
WriteToFile ==
  /\ pc = "stats"
  /\ out' = FileText(analysis, statistics)
  /\ pc' = "done"
  /\ UNCHANGED <<lines, analysis, current_module, pylint_counts, total_issues,
                 left_sum, false_positive_rate, statistics>>

Next == ParseStep \/ ParseReturn \/ GenerateStatistics \/ WriteToFile

\* Every file of at most MaxLines lines of RawLines.
Spec == Init /\ [][Next]_vars

NextUnits == ParseStepUnits \/ ParseReturn \/ GenerateStatistics \/ WriteToFile

\* Every file of at most MaxUnitLines lines of UnitLines.
SpecUnits == Init /\ [][NextUnits]_vars

----------------------------------------------------------------------------
(* Vocabulary of the properties, read off the input and the output.        *)

Last(s) == s[Len(s)]

IsHeaderLine(raw) == StartsWith(Strip(raw), MARKER)

LabelOfLine(raw) == HeaderLabel(Strip(raw))

Segments(raw) == Split(Strip(raw), ":")

\* A candidate line with four segments or more and a severity.
WellFormed(raw) ==
  /\ ~IsHeaderLine(raw)
  /\ Strip(raw) /= <<>>
  /\ Len(Segments(raw)) >= 4
  /\ Strip(Segments(raw)[4]) /= <<>>

\* A candidate line with fewer than four segments or an empty fourth one.
Malformed(raw) ==
  /\ ~IsHeaderLine(raw)
  /\ Strip(raw) /= <<>>
  /\ \/ Len(Segments(raw)) < 4
     \/ Strip(Segments(raw)[4]) = <<>>

\* The Diagnostic of a well-formed line: location, category, raw_text.
DiagnosticOf(raw) ==
  <<Strip(Segments(raw)[1]), Head(Strip(Segments(raw)[4])), Strip(raw)>>

HeaderIndexes == {i \in 1..Len(lines) : IsHeaderLine(lines[i])}

NoHeaderLine == HeaderIndexes = {}

\* The positions <<unit, index>> of the Diagnostics of a sequence of units.
Positions(units) ==
  UNION {{<<u, j>> : j \in 1..Len(units[u])} : u \in 1..Len(units)}

CategoryAt(units, p) == units[p[1]][p[2]][2]

IsRecognized(c) == c \in {"E", "W", "C", "R", "F", "I"}

\* The positions of the Error and Fatal Diagnostics.
CriticalPositions(units) ==
  {p \in Positions(units) : CategoryAt(units, p) \in {"E", "F"}}

\* Unit order first, sequence order within the unit.
Before(p, q) == p[1] < q[1] \/ (p[1] = q[1] /\ p[2] < q[2])

\* `section` lists the Error and Fatal Diagnostics of `units`, one line
\* each, in unit order and then in sequence order.
IsListing(section, units) ==
  LET P == CriticalPositions(units) IN
  /\ Len(section) = Cardinality(P)
  /\ \A p \in P :
       section[Cardinality({q \in P : Before(q, p)}) + 1]
         = <<IF CategoryAt(units, p) = "E" THEN "Error: " ELSE "Fatal: ">>
           \o units[p[1]][p[2]][3]

\* The lines of the output between "Potential Bugs:" and the empty line
\* that precedes "Statistics:".
BugSection ==
  LET end == CHOOSE k \in 2..Len(out) :
               out[k] = <<>> /\ \A j \in 2..(k - 1) : out[j] /= <<>>
  IN SubSeq(out, 2, end - 1)

\* The Diagnostics of the lines between the last header line of `label`
\* and the header line that follows it, in the order of the lines.
UnitAfterLastHeader(label) ==
  LET h == CHOOSE i \in HeaderIndexes :
             /\ LabelOfLine(lines[i]) = label
             /\ \A j \in HeaderIndexes : LabelOfLine(lines[j]) = label => j <= i
      later == {j \in HeaderIndexes : j > h}
      n == IF later = {} THEN Len(lines) + 1
           ELSE CHOOSE j \in later : \A k \in later : j <= k
      body == SelectSeq(SubSeq(lines, h + 1, n - 1), WellFormed)
  IN [j \in 1..Len(body) |-> DiagnosticOf(body[j])]

\* The header lines that carry a label for the first time.
FirstHeaderIndexes ==
  {i \in HeaderIndexes :
     \A j \in HeaderIndexes : j < i => LabelOfLine(lines[j]) /= LabelOfLine(lines[i])}

\* The labels in the order of their first header line.
LabelsByFirstHeader ==
  [n \in 1..Cardinality(FirstHeaderIndexes) |->
     LabelOfLine(lines[CHOOSE i \in FirstHeaderIndexes :
                         Cardinality({j \in FirstHeaderIndexes : j < i}) = n - 1])]

Computed == pc \in {"stats", "done"}

\* x * d differs from n by at most d * 2^-k, for a float x >= 0.
FTimesWithin(x, d, n, k) ==
  LET sh == IF x.e < 0 THEN 0 - x.e ELSE 0
      a == NatShl(NatMulSmall(x.m, d), x.e + sh)
      b == NatShl(NatOf(n), sh)
      diff == IF NatLess(a, b) THEN NatSub(b, a) ELSE NatSub(a, b)
  IN /\ ~x.neg
     /\ IF k >= sh THEN ~NatLess(NatOf(d), NatShl(diff, k - sh))
        ELSE ~NatLess(NatShl(NatOf(d), sh - k), diff)

----------------------------------------------------------------------------
(* The claims *)

C2_Theorem ==
  Computed =>
    LET units == DictValues(analysis) IN
    /\ \A c \in Codes :
         pylint_counts[c]
           = Cardinality({p \in Positions(units) : CategoryAt(units, p) = c})
    /\ total_issues
         = Cardinality({p \in Positions(units) : IsRecognized(CategoryAt(units, p))})

C2_Witness ==
  /\ pc = "stats"
  /\ total_issues >= 2
  /\ \E p \in Positions(DictValues(analysis)) :
       ~IsRecognized(CategoryAt(DictValues(analysis), p))

\* C3: the "Potential Bugs:" section holds one line per Diagnostic of
\* category E ("Error: " and the raw text) or F ("Fatal: " and the raw
\* text), in unit order and then sequence order, and no other line.
C3_Theorem ==
  pc = "done" => IsListing(BugSection, DictValues(analysis))

C3_Witness ==
  /\ pc = "done"
  /\ Len(BugSection) >= 2
  /\ \E i \in 1..Len(BugSection) : Head(BugSection[i]) = "Fatal: "
  /\ \E i \in 1..Len(BugSection) : Head(BugSection[i]) = "Error: "
  /\ Cardinality(Positions(DictValues(analysis))) > Len(BugSection)

\* C4 as stated: after a header line the current unit is the remainder of
\* the line after the marker with the whitespace around it trimmed.
C4_AsStated ==
  (pc = "parse" /\ lines /= <<>> /\ IsHeaderLine(Last(lines))) =>
    current_module = <<Strip(SliceFrom(Strip(Last(lines)), Len(MARKER)))>>

\* C4 amended: after a header line the current unit is the label L such
\* that the line is whitespace, the marker, L and whitespace, where L does
\* not end with whitespace: whitespace before the marker and after the
\* label is dropped, whitespace between the marker and the label is part
\* of the label.
C4_Theorem ==
  (pc = "parse" /\ lines /= <<>> /\ IsHeaderLine(Last(lines))) =>
    /\ current_module /= None
    /\ DictHas(analysis, current_module[1])
    /\ LET s == LStrip(Last(lines))
           L == current_module[1]
       IN /\ Len(s) >= Len(MARKER) + Len(L)
          /\ SubSeq(s, 1, Len(MARKER) + Len(L)) = MARKER \o L
          /\ \A i \in (Len(MARKER) + Len(L) + 1)..Len(s) : IsSpace(s[i])
          /\ L /= <<>>
          /\ ~IsSpace(Last(L))

\* Header lines that differ in the whitespace around the line name one
\* unit; a header line with more whitespace after the marker names another.
C4_Witness ==
  /\ pc = "parse"
  /\ Len(lines) = 3
  /\ lines[1] = HdrA
  /\ lines[2] = HdrAInner
  /\ lines[3] = HdrAOuter
  /\ DictKeys(analysis) = << <<"a">>, <<" ", "a">> >>
  /\ current_module = << <<"a">> >>

\* C5: the Report holds, under each label, the Diagnostics of the lines
\* between the label's last header line and the next header line, and
\* nothing recorded before that header line; its keys are the labels of
\* the header lines; no error is raised.
C5_Theorem ==
  /\ {analysis[i][1] : i \in 1..Len(analysis)}
       = {LabelOfLine(lines[i]) : i \in HeaderIndexes}
  /\ \A i \in 1..Len(analysis) :
       analysis[i][2] = UnitAfterLastHeader(analysis[i][1])
  /\ pc /= "ZeroDivisionError"

\* The label of the last header line has an earlier header line, followed
\* by a Diagnostic that is gone.
C5_Witness ==
  /\ pc = "parsed"
  /\ \E h1, d1, h2 \in 1..Len(lines) :
       /\ h1 < d1 /\ d1 < h2
       /\ IsHeaderLine(lines[h1]) /\ IsHeaderLine(lines[h2])
       /\ LabelOfLine(lines[h1]) = LabelOfLine(lines[h2])
       /\ WellFormed(lines[d1])
       /\ \A j \in (h1 + 1)..(h2 - 1) : ~IsHeaderLine(lines[j])
       /\ h2 < Len(lines)
       /\ \A j \in (h2 + 1)..Len(lines) : WellFormed(lines[j])
       /\ DictGet(analysis, LabelOfLine(lines[h2]))
            = [j \in 1..(Len(lines) - h2) |-> DiagnosticOf(lines[h2 + j])]

\* C6: the step on a malformed line under an open unit changes neither the
\* Report nor the current unit, and the loop goes on.
C6_Theorem ==
  [][(/\ pc = "parse"
      /\ current_module /= None
      /\ Len(lines') = Len(lines) + 1
      /\ Malformed(Last(lines')))
     => /\ analysis' = analysis
        /\ current_module' = current_module
        /\ pc' = "parse"]_vars

C6_Witness ==
  /\ pc = "parse"
  /\ Len(lines) >= 3
  /\ Malformed(Last(lines))
  /\ current_module /= None
  /\ DictGet(analysis, current_module[1]) /= <<>>

\* C7: without a header line the Report is empty, the counts, total_issues
\* and false_positive_rate are 0 and the "Potential Bugs:" section is
\* empty; with one, the Report holds no more Diagnostics than there are
\* well-formed lines after the first header line.
C7_Theorem ==
  /\ NoHeaderLine =>
       /\ analysis = <<>>
       /\ current_module = None
       /\ pc /= "ZeroDivisionError"
       /\ Computed => /\ pylint_counts = [c \in Codes |-> 0]
                      /\ total_issues = 0
                      /\ FIsZero(false_positive_rate)
       /\ pc = "done" => BugSection = <<>>
  /\ Cardinality(Positions(DictValues(analysis)))
       <= Cardinality({i \in 1..Len(lines) :
                         WellFormed(lines[i]) /\ \E h \in HeaderIndexes : h < i})

C7_Witness ==
  /\ pc = "done"
  /\ NoHeaderLine
  /\ \E i \in 1..Len(lines) : WellFormed(lines[i])
  /\ BugSection = <<>>

\* C8: the step on a well-formed line under an open unit appends the
\* line's Diagnostic to the sequence of the current unit and changes
\* neither the current unit, nor the keys and their order, nor the
\* sequence of another unit.
C8_Theorem ==
  [][(/\ pc = "parse"
      /\ current_module /= None
      /\ Len(lines') = Len(lines) + 1
      /\ WellFormed(Last(lines')))
     => /\ current_module' = current_module
        /\ DictKeys(analysis') = DictKeys(analysis)
        /\ \A i \in 1..Len(analysis) :
             analysis'[i][2]
               = IF analysis[i][1] = current_module[1]
                 THEN Append(analysis[i][2], DiagnosticOf(Last(lines')))
                 ELSE analysis[i][2]]_vars

C8_Witness ==
  /\ pc = "parse"
  /\ Len(analysis) = 2
  /\ current_module /= None
  /\ WellFormed(Last(lines))
  /\ Len(DictGet(analysis, current_module[1])) = 2
  /\ DictGet(analysis, current_module[1])[1] /= DictGet(analysis, current_module[1])[2]
  /\ Last(DictGet(analysis, current_module[1])) = DiagnosticOf(Last(lines))

\* C9: generate_statistics never divides by zero; when F + E > 0,
\* total_issues >= F + E >= 1 and 0 <= false_positive_rate < 100, and
\* false_positive_rate is 0 exactly when total_issues = F + E.
C9_Theorem ==
  /\ pc /= "ZeroDivisionError"
  /\ (Computed /\ pylint_counts["F"] + pylint_counts["E"] > 0) =>
       /\ total_issues >= pylint_counts["F"] + pylint_counts["E"]
       /\ pylint_counts["F"] + pylint_counts["E"] >= 1
       /\ ~false_positive_rate.neg
       /\ FLessInt(false_positive_rate, 100)
       /\ FIsZero(false_positive_rate)
            <=> total_issues = pylint_counts["F"] + pylint_counts["E"]

C9_Witness ==
  /\ pc = "stats"
  /\ pylint_counts["F"] + pylint_counts["E"] = 1
  /\ total_issues = 3
  /\ ~FIsZero(false_positive_rate)

\* C10: the units of the Report are in the order of the first header line
\* of their labels, and the "Potential Bugs:" section lists, unit by unit
\* in that order, the Error and Fatal Diagnostics that follow each label's
\* last header line.
C10_Theorem ==
  /\ DictKeys(analysis) = LabelsByFirstHeader
  /\ pc = "done" =>
       IsListing(BugSection,
                 [n \in 1..Len(LabelsByFirstHeader) |->
                    UnitAfterLastHeader(LabelsByFirstHeader[n])])

\* A label comes back after another unit was opened; its Error line, the
\* last line of the input, is listed before the other unit's Fatal line.
C10_Witness ==
  /\ pc = "done"
  /\ lines = <<HdrA, HdrAInner, DiagF, HdrA, DiagE>>
  /\ BugSection = << <<"Error: ">> \o Strip(DiagE), <<"Fatal: ">> \o Strip(DiagF) >>

====
